---- MODULE Spec2Model ----
(***************************************************************************)
(* Model of integrated_monitor.py: three feed monitors (Binance and Bybit  *)
(* websocket feeds, the Hyperliquid Telegram channel), each on its own     *)
(* daemon thread, their background probe threads, and the supervisory loop *)
(* of main().                                                              *)
(*                                                                         *)
(* The websocket-client library is the environment: a connection attempt   *)
(* succeeds (on_open) or fails, an open connection may drop, frames        *)
(* arrive, and run_forever() calls on_close once the transport is gone.    *)
(* WebSocketApp.close() from another thread drops the socket; the owning   *)
(* thread notices it later.                                                *)
(*                                                                         *)
(* Time is discrete.  Tick lets at least Quantum units pass; time.sleep(d)  *)
(* lasts at least d.  The sleeps of the probe threads and of the           *)
(* supervisor are not timed: they may end at any moment (every timed       *)
(* behaviour is a behaviour of the model).                                 *)
(***************************************************************************)
EXTENDS Integers, Sequences, FiniteSets, TLC

Exchanges == {"Binance", "Bybit"}
Sources == Exchanges \cup {"Hyperliquid"}

\* ---- program constants ----
max_reconnect_attempts == 10
BackoffDelay == 5
StaleBound == 120
AuditEvery == 5
TrackedThreshold == 1000000
GenericThreshold == 500000
HyperThreshold == 1000000
TRACKED_SYMBOLS == {"BTCUSDT", "ETHUSDT", "ETHUSDC", "SOLUSDT"}

\* ---- bounds of the model ----
MaxProbes == 2
MaxBatch == 2
MaxTok == 3
MaxFrames == 3
MaxInbox == 2
\* Sources whose threads are interleaved in one behaviour.
MaxActive == 2
\* Nested invocations of start() that are counted on one thread.
MaxDepth == 12

\* One Tick is the passing of at least Quantum units of time.  An age is kept up
\* to the comparisons the code makes with it: 0 (just set), below the staleness
\* bound, equal to it, above it.
Quantum == BackoffDelay
AgeCap == StaleBound + Quantum
Ages == {0, StaleBound - Quantum, StaleBound, AgeCap}

VARIABLES
    focus,              \* the source whose threads are scheduled in this behaviour
    creds,              \* TELEGRAM_API_ID and TELEGRAM_API_HASH are both set
    running,            \* [Sources -> BOOLEAN]            self.running
    reconnect_count,    \* [Exchanges -> 0..10]            self.reconnect_count
    sock,               \* [Exchanges -> "none"|"connecting"|"open"]  self.ws.sock
    connection_alive,   \* BybitMonitor.connection_alive
    age,                \* [Exchanges -> 0..AgeCap] time.time() - last liveness signal
    thread,             \* [Sources -> position of the source's owning thread]
    backoff,            \* [Exchanges -> time left of on_close's time.sleep(5)]
    probes,             \* [Exchanges -> [sleep, close -> number of probe threads]]
    main,               \* position of the main thread
    health_check_counter,
    exhausted,          \* [Exchanges -> BOOLEAN] on_close has found the budget used up
    forced,             \* forced transport closes of Bybit since last_ping_time was set
    frame,              \* the frame handled by the step just taken
    out,                \* the alerts passed to send_telegram by the step just taken
    posts,              \* the outcomes of the HTTP posts made by the step just taken
    inbox,              \* frames received on the open socket, not yet handled
    arrived,            \* the number of frames that have arrived in the inbox
    log,                \* the send_telegram calls made for frames of the inbox
    message_text,       \* event.message.message of the channel event just handled
    depth,              \* [Exchanges -> start() invocations not yet returned, where counted]
    loops               \* [Sources -> live threads that main() started on the monitor's start]

conn == <<running, reconnect_count, sock, connection_alive, age, thread, backoff,
          probes, exhausted, forced, depth, loops>>
sup == <<main, health_check_counter>>
vars == <<focus, creds, running, reconnect_count, sock, connection_alive, age, thread,
          backoff, probes, main, health_check_counter, exhausted, forced, frame,
          out, posts, inbox, arrived, log, message_text, depth, loops>>

NoFrame == [kind |-> "none"]

\* The order in which main() audits and stops the sources; a position of main().
Order == <<"Binance", "Bybit", "Hyperliquid">>
At(a, i) == [at |-> a, i |-> i]
Min(a, b) == IF a < b THEN a ELSE b
Max(a, b) == IF a > b THEN a ELSE b

\* The process is still there (daemon threads end with the main thread).
ProcessAlive == main.at # "exited"

\* A step that handles no frame.  The frames read from a socket and not yet
\* handled are gone when the socket is.
Silent ==
    /\ frame' = NoFrame
    /\ out' = <<>>
    /\ posts' = <<>>
    /\ inbox' = IF focus \in Exchanges /\ sock'[focus] = "open" THEN inbox ELSE <<>>
    /\ message_text' = <<>>
    /\ UNCHANGED <<arrived, log>>

\* A step in which no frame is handled and no invocation of start() begins or
\* ends, or in which the invocations are not counted.
Quiet == Silent /\ UNCHANGED <<depth, loops>>

\* The thread on source s's start() ends: start() has returned.
Ends(s) == loops' = [loops EXCEPT ![s] = @ - 1]

Init ==
    /\ focus \in Sources
    /\ creds \in BOOLEAN
    /\ running = [s \in Sources |-> FALSE]
    /\ reconnect_count = [m \in Exchanges |-> 0]
    /\ sock = [m \in Exchanges |-> "none"]
    /\ connection_alive = FALSE
    /\ age = [m \in Exchanges |-> AgeCap]
    /\ thread = [s \in Sources |-> "start"]
    /\ backoff = [m \in Exchanges |-> 0]
    /\ probes = [m \in Exchanges |-> [sleep |-> 0, close |-> 0]]
    /\ main = At("sleep", 0)
    /\ health_check_counter = 0
    /\ exhausted = [m \in Exchanges |-> FALSE]
    /\ forced = 0
    /\ frame = NoFrame
    /\ out = <<>>
    /\ posts = <<>>
    /\ inbox = <<>>
    /\ arrived = 0
    /\ log = <<>>
    /\ message_text = <<>>
    /\ depth = [m \in Exchanges |-> 0]
    /\ loops = [s \in Sources |-> 1]

\* ---------------------------------------------------------------------------
\* Exchange connections
\* ---------------------------------------------------------------------------

\* threading.Thread(target=ping_loop / enhanced_monitoring_loop).start()
Spawn(p) ==
    IF p.sleep + p.close < MaxProbes THEN [p EXCEPT !.sleep = @ + 1] ELSE p

\* start(): running = True, a new WebSocketApp, a new probe thread, run_forever()
StartBody_Shared(m) ==
    /\ running' = [s \in Sources |-> s \in Exchanges \/ running[s]]
    /\ sock' = [sock EXCEPT ![m] = "connecting"]
    /\ probes' = [probes EXCEPT ![m] = Spawn(@)]
    /\ thread' = [thread EXCEPT ![m] = "run"]
StartBody(m) ==
    /\ running' = [running EXCEPT ![m] = TRUE]
    /\ sock' = [sock EXCEPT ![m] = "connecting"]
    /\ probes' = [probes EXCEPT ![m] = Spawn(@)]
    /\ thread' = [thread EXCEPT ![m] = "run"]

\* The owning thread enters start() (started by main).
ThreadStart(m) ==
    /\ ProcessAlive /\ focus = m
    /\ thread[m] = "start"
    /\ StartBody(m)
    /\ UNCHANGED <<focus, creds, reconnect_count, connection_alive, age, backoff,
                   exhausted, forced, sup>>
    /\ Quiet

\* on_open
ConnectOk(m) ==
    /\ ProcessAlive /\ focus = m
    /\ thread[m] = "run" /\ sock[m] = "connecting"
    /\ sock' = [sock EXCEPT ![m] = "open"]
    /\ reconnect_count' = [reconnect_count EXCEPT ![m] = 0]
    /\ age' = [age EXCEPT ![m] = 0]
    /\ connection_alive' = IF m = "Bybit" THEN TRUE ELSE connection_alive
    /\ forced' = IF m = "Bybit" THEN 0 ELSE forced
    /\ UNCHANGED <<focus, creds, running, thread, backoff, probes, exhausted, sup>>
    /\ Quiet

\* The transport is gone: run_forever() will call on_close.
\* The attempt fails, the peer drops an open connection, or the owning thread
\* finds the socket closed by another thread.
ConnectFail(m) ==
    /\ ProcessAlive /\ focus = m
    /\ thread[m] = "run" /\ sock[m] = "connecting"
    /\ sock' = [sock EXCEPT ![m] = "none"]
    /\ thread' = [thread EXCEPT ![m] = "on_close"]
    /\ UNCHANGED <<focus, creds, running, reconnect_count, connection_alive, age,
                   backoff, probes, exhausted, forced, sup>>
    /\ Quiet

Drop(m) ==
    /\ ProcessAlive /\ focus = m
    /\ thread[m] = "run" /\ sock[m] = "open"
    /\ sock' = [sock EXCEPT ![m] = "none"]
    /\ thread' = [thread EXCEPT ![m] = "on_close"]
    /\ UNCHANGED <<focus, creds, running, reconnect_count, connection_alive, age,
                   backoff, probes, exhausted, forced, sup>>
    /\ Quiet

Teardown(m) ==
    /\ ProcessAlive /\ focus = m
    /\ thread[m] = "run" /\ sock[m] = "none"
    /\ thread' = [thread EXCEPT ![m] = "on_close"]
    /\ UNCHANGED <<focus, creds, running, reconnect_count, sock, connection_alive,
                   age, backoff, probes, exhausted, forced, sup>>
    /\ Quiet

\* on_close's condition for reconnecting
CanReconnect_OffByOne(m) == running[m] /\ reconnect_count[m] <= max_reconnect_attempts
CanReconnect(m) == running[m] /\ reconnect_count[m] < max_reconnect_attempts

\* reconnect_count += 1
NextCount(n) == n + 1

\* the argument of on_close's time.sleep
BackoffOf_Growing(n) == BackoffDelay * n
BackoffOf(n) == BackoffDelay

\* on_close up to its time.sleep(5); when it does not reconnect, every nested
\* start() returns and the thread ends.
OnClose(m) ==
    /\ ProcessAlive /\ focus = m
    /\ thread[m] = "on_close"
    /\ connection_alive' = IF m = "Bybit" THEN FALSE ELSE connection_alive
    /\ IF CanReconnect(m)
       THEN /\ reconnect_count' = [reconnect_count EXCEPT ![m] = NextCount(@)]
            /\ backoff' = [backoff EXCEPT ![m] = BackoffOf(reconnect_count'[m])]
            /\ thread' = [thread EXCEPT ![m] = "backoff"]
            /\ UNCHANGED <<exhausted, loops>>
       ELSE /\ thread' = [thread EXCEPT ![m] = "dead"]
            /\ Ends(m)
            /\ exhausted' = [exhausted EXCEPT ![m] = @ \/ running[m]]
            /\ UNCHANGED <<reconnect_count, backoff>>
    /\ UNCHANGED <<focus, creds, running, sock, age, probes, forced, sup>>
    /\ Silent /\ UNCHANGED depth

\* on_close after its sleep: self.start()
Reconnect(m) ==
    /\ ProcessAlive /\ focus = m
    /\ thread[m] = "backoff" /\ backoff[m] = 0
    /\ StartBody(m)
    /\ UNCHANGED <<focus, creds, reconnect_count, connection_alive, age, backoff,
                   exhausted, forced, sup>>
    /\ Quiet

\* The same steps with the call stack of the owning thread counted: start()
\* calls run_forever(), which calls on_close, which calls start() again.
\* The owning thread enters start().
NestedStart(m) ==
    /\ ProcessAlive /\ focus = m
    /\ thread[m] = "start"
    /\ StartBody(m)
    /\ depth' = [depth EXCEPT ![m] = 1]
    /\ UNCHANGED <<focus, creds, reconnect_count, connection_alive, age, backoff,
                   exhausted, forced, sup, loops>>
    /\ Silent

\* on_close up to its time.sleep(5), or to its end when it does not reconnect
NestedOnClose(m) ==
    /\ ProcessAlive /\ focus = m
    /\ thread[m] = "on_close"
    /\ connection_alive' = IF m = "Bybit" THEN FALSE ELSE connection_alive
    /\ IF CanReconnect(m)
       THEN /\ reconnect_count' = [reconnect_count EXCEPT ![m] = NextCount(@)]
            /\ backoff' = [backoff EXCEPT ![m] = BackoffOf(reconnect_count'[m])]
            /\ thread' = [thread EXCEPT ![m] = "backoff"]
            /\ UNCHANGED exhausted
       ELSE /\ thread' = [thread EXCEPT ![m] = "return"]
            /\ exhausted' = [exhausted EXCEPT ![m] = @ \/ running[m]]
            /\ UNCHANGED <<reconnect_count, backoff>>
    /\ UNCHANGED <<focus, creds, running, sock, age, probes, forced, sup, depth, loops>>
    /\ Silent

\* on_close after its sleep: self.start(), one invocation deeper
NestedReconnect(m) ==
    /\ ProcessAlive /\ focus = m
    /\ thread[m] = "backoff" /\ backoff[m] = 0
    /\ depth[m] < MaxDepth
    /\ StartBody(m)
    /\ depth' = [depth EXCEPT ![m] = @ + 1]
    /\ UNCHANGED <<focus, creds, reconnect_count, connection_alive, age, backoff,
                   exhausted, forced, sup, loops>>
    /\ Silent

\* on_close, run_forever() and start() return to the on_close that called
\* start(), which returns in turn; the outermost start() ends the thread.
NestedReturn(m) ==
    /\ ProcessAlive /\ focus = m
    /\ thread[m] = "return"
    /\ depth' = [depth EXCEPT ![m] = @ - 1]
    /\ thread' = [thread EXCEPT ![m] = IF depth[m] = 1 THEN "dead" ELSE "return"]
    /\ UNCHANGED <<focus, creds, running, reconnect_count, sock, connection_alive,
                   age, backoff, probes, exhausted, forced, sup>>
    /\ IF depth[m] = 1 THEN Ends(m) ELSE UNCHANGED loops
    /\ Silent

\* ---------------------------------------------------------------------------
\* Frames of the exchange feeds and on_message
\* ---------------------------------------------------------------------------

\* A liquidation record: symbol s, side S, quantity q, price p; nan: the
\* quantity is not a number (float() raises).  "" is an absent or empty string.
Symbols == {"", "BTCUSDT", "DOGEUSDT"}
Sides == {"", "BUY", "Buy", "buy", "SELL"}
Qtys == {-5, 0, 4, 5, 6, 10}
Prices == {-100000, 0, 100000}
BadRec == [s |-> "BTCUSDT", S |-> "Buy", q |-> 10, p |-> 100000, nan |-> TRUE]
Records == [s : Symbols, S : Sides, q : Qtys, p : Prices, nan : {FALSE}] \cup {BadRec}
\* the records of the longer Bybit batches
BatchRecords ==
    {r \in Records : r.nan \/ (r.s # "" /\ r.S = "Buy" /\ r.q \in {4, 10} /\ r.p = 100000)}

Frame(k, rs) == [kind |-> k, recs |-> rs]
\* garbage: json.loads raises; nonobject: JSON, but not an object
BinanceFrames ==
    {Frame(k, <<>>) : k \in {"garbage", "nonobject", "order"}}
        \cup {Frame("order", <<r>>) : r \in Records}
BybitFrames ==
    {Frame(k, <<>>) : k \in {"garbage", "nonobject", "ack", "pong", "other", "batch"}}
        \cup {Frame("batch", <<r>>) : r \in Records}
        \cup UNION {{Frame("batch", rs) : rs \in [1..n -> BatchRecords]} : n \in 2..MaxBatch}
FramesOf(m) == IF m = "Binance" THEN BinanceFrames ELSE BybitFrames
\* the frames of the connection life cycle
FewFrames(m) ==
    {f \in FramesOf(m) : f.kind # "batch" /\ f.kind # "order"}
        \cup {Frame(IF m = "Binance" THEN "order" ELSE "batch",
                    <<[s |-> "BTCUSDT", S |-> "Buy", q |-> 10, p |-> 100000, nan |-> FALSE]>>)}

\* base_format / generic_format: position = "SHORT" if side is BUY or Buy else "LONG"
Position_UpperOnly(side) == IF side = "BUY" THEN "SHORT" ELSE "LONG"
Position(side) == IF side \in {"BUY", "Buy"} THEN "SHORT" ELSE "LONG"

\* The filter of on_message: which format, if any, the record is sent in.
Classify_Strict(symbol, value) ==
    IF symbol \in TRACKED_SYMBOLS /\ value >= TrackedThreshold THEN "base"
    ELSE IF value > GenericThreshold THEN "generic"
    ELSE "none"
Classify(symbol, value) ==
    IF symbol \in TRACKED_SYMBOLS /\ value >= TrackedThreshold THEN "base"
    ELSE IF value >= GenericThreshold THEN "generic"
    ELSE "none"

Notional(r) == r.q * r.p

\* the alert send_telegram gets for record r
Alert(m, r) ==
    [fmt |-> Classify(r.s, Notional(r)), tag |-> m, symbol |-> r.s,
     position |-> Position(r.S), value |-> Notional(r), price |-> r.p]
AlertsOfRecord(m, r) ==
    IF Classify(r.s, Notional(r)) = "none" THEN <<>> ELSE <<Alert(m, r)>>

\* BinanceMonitor.on_message: if not all([symbol, side, qty, price]): return
AllPresent(r) == r.s # "" /\ r.S # "" /\ r.q # 0 /\ r.p # 0

BinanceAlerts_NoFloatCheck(f) ==
    IF f.kind # "order" \/ f.recs = <<>> THEN <<>>
    ELSE IF ~AllPresent(f.recs[1]) THEN <<>>
    ELSE AlertsOfRecord("Binance", f.recs[1])
BinanceAlerts(f) ==
    IF f.kind # "order" \/ f.recs = <<>> THEN <<>>
    ELSE IF f.recs[1].nan \/ ~AllPresent(f.recs[1]) THEN <<>>
    ELSE AlertsOfRecord("Binance", f.recs[1])

\* BybitMonitor.on_message: the loop over data['data']; float() raising on a
\* record ends the loop (the except clause is outside it).
RECURSIVE BatchAlerts_Reversed(_)
BatchAlerts_Reversed(rs) ==
    IF rs = <<>> \/ Head(rs).nan THEN <<>>
    ELSE BatchAlerts_Reversed(Tail(rs)) \o AlertsOfRecord("Bybit", Head(rs))
RECURSIVE BatchAlerts(_)
BatchAlerts(rs) ==
    IF rs = <<>> \/ Head(rs).nan THEN <<>>
    ELSE AlertsOfRecord("Bybit", Head(rs)) \o BatchAlerts(Tail(rs))

BybitAlerts(f) == IF f.kind = "batch" THEN BatchAlerts(f.recs) ELSE <<>>

\* send_telegram: the outcome of requests.post is status 200, another status,
\* or an exception
Outcomes == {"ok", "status", "exception"}
\* send_telegram raises to its caller (it catches every Exception)
SendRaises_Uncaught(o) == o = "exception"
SendRaises(o) == FALSE
\* the HTTP posts one call of send_telegram makes when the first has outcome o
Posts_Retry(o) == IF o = "ok" THEN <<o>> ELSE <<o, o>>
Posts(o) == <<o>>
\* The calls of send_telegram a handler makes when it has the alerts to send and
\* the i-th call has outcome os[i]: a call that raises ends the handler.
RECURSIVE Calls(_, _)
Calls(alerts, os) ==
    IF alerts = <<>> THEN <<>>
    ELSE IF SendRaises(Head(os)) THEN <<Head(alerts)>>
    ELSE <<Head(alerts)>> \o Calls(Tail(alerts), Tail(os))
RECURSIVE AllPosts(_)
AllPosts(os) == IF os = <<>> THEN <<>> ELSE Posts(Head(os)) \o AllPosts(Tail(os))
\* the step of a handler that has the alerts to send
Sends(alerts) ==
    \E os \in [1..Len(alerts) -> Outcomes] :
        /\ out' = Calls(alerts, os)
        /\ posts' = AllPosts(SubSeq(os, 1, Len(out')))

\* json.loads(message) succeeded
Parsed(f) == f.kind # "garbage"

\* on_message of an open connection.  age["Binance"] is an observer's clock (the
\* BinanceMonitor keeps no timestamp): the time since the last frame or open.
OnMessage(m, f) ==
    /\ ProcessAlive /\ focus = m
    /\ thread[m] = "run" /\ sock[m] = "open"
    /\ frame = NoFrame
    /\ IF m = "Bybit"
       THEN /\ connection_alive' = IF Parsed(f) THEN TRUE ELSE connection_alive
            /\ age' = IF Parsed(f) THEN [age EXCEPT ![m] = 0] ELSE age
            /\ forced' = IF Parsed(f) THEN 0 ELSE forced
            /\ Sends(BybitAlerts(f))
       ELSE /\ age' = [age EXCEPT ![m] = 0]
            /\ Sends(BinanceAlerts(f))
            /\ UNCHANGED <<connection_alive, forced>>
    /\ frame' = f
    /\ UNCHANGED <<focus, creds, running, reconnect_count, sock, thread, backoff,
                   probes, exhausted, sup, depth, loops>>

\* The frame comes straight from the peer: nothing is kept of its arrival.
Direct == message_text' = <<>> /\ UNCHANGED <<inbox, arrived, log>>

\* on_message / handle_new_message returns.
Handled ==
    /\ ProcessAlive
    /\ frame # NoFrame
    /\ UNCHANGED <<focus, creds, conn, sup>>
    /\ Quiet

\* ---------------------------------------------------------------------------
\* The Hyperliquid channel
\* ---------------------------------------------------------------------------

\* A value token is a string over the characters the pattern admits.
Digits == {"1", "5"}
Chars == Digits \cup {",", ".", "k", "M"}
Tokens == UNION {[1..n -> Chars] : n \in 1..MaxTok}
PriceTokens == {<<"5">>, <<"1", ",", "5">>}

DigitValue(c) == IF c = "1" THEN 1 ELSE 5
Strip(t, drop) == SelectSeq(t, LAMBDA c : c \notin drop)
RECURSIVE Pow10(_)
Pow10(n) == IF n = 0 THEN 1 ELSE 10 * Pow10(n - 1)
RECURSIVE DigitsValue(_)
DigitsValue(t) ==
    IF t = <<>> THEN 0 ELSE 10 * DigitsValue(SubSeq(t, 1, Len(t) - 1)) + DigitValue(t[Len(t)])

\* float(s) accepts s: digits with at most one point, at least one digit
FloatOk(t) ==
    /\ \A i \in 1..Len(t) : t[i] \in Digits \cup {"."}
    /\ Cardinality({i \in 1..Len(t) : t[i] = "."}) <= 1
    /\ \E i \in 1..Len(t) : t[i] \in Digits
\* the digits after the point
Decimals(t) ==
    IF \E i \in 1..Len(t) : t[i] = "."
    THEN Len(t) - (CHOOSE i \in 1..Len(t) : t[i] = ".")
    ELSE 0

\* parse_hyperliquid_message, the value: the multiplier of the suffix
Multiplier_KiloOnly(t) ==
    IF t[Len(t)] \in {"k", "M"} THEN 1000 ELSE 1
Multiplier(t) ==
    IF t[Len(t)] = "M" THEN 1000000 ELSE IF t[Len(t)] = "k" THEN 1000 ELSE 1
\* value_str.replace('M', '').replace(',', '') and the like
Mantissa(t) ==
    IF t[Len(t)] = "M" THEN Strip(t, {"M", ","})
    ELSE IF t[Len(t)] = "k" THEN Strip(t, {"k", ","})
    ELSE Strip(t, {","})
\* the value as the fraction num / den
ValueOf(t) ==
    [num |-> DigitsValue(Strip(Mantissa(t), {"."})) * Multiplier(t),
     den |-> Pow10(Decimals(Mantissa(t)))]

\* A channel message: empty, without the pattern, or with it.
Texts ==
    {[kind |-> k, symbol |-> "", side |-> "", value |-> <<>>, price |-> <<>>] :
        k \in {"empty", "nomatch"}}
    \cup [kind : {"liq"}, symbol : {"BTC", "ENA"}, side : {"Long", "Short"},
          value : Tokens, price : PriceTokens]

\* parse_hyperliquid_message: None, an exception of float(), or the parsed event
ParseHyperliquid_Stripped(text) ==
    IF text.kind # "liq" THEN [res |-> "none"]
    ELSE IF ~FloatOk(Mantissa(text.value)) THEN [res |-> "raise"]
    ELSE [res |-> "ok", symbol |-> text.symbol, side |-> text.side,
          value |-> ValueOf(text.value), value_display |-> Mantissa(text.value),
          price |-> text.price]
ParseHyperliquid(text) ==
    IF text.kind # "liq" THEN [res |-> "none"]
    ELSE IF ~FloatOk(Mantissa(text.value)) THEN [res |-> "raise"]
    ELSE [res |-> "ok", symbol |-> text.symbol, side |-> text.side,
          value |-> ValueOf(text.value), value_display |-> text.value,
          price |-> text.price]

\* handle_new_message's filter: value < 1_000_000 returns
HyperPasses_Generic(v) == v.num >= GenericThreshold * v.den
HyperPasses(v) == v.num >= HyperThreshold * v.den

Upper(side) == IF side = "Long" THEN "LONG" ELSE "SHORT"

HyperAlerts(text) ==
    IF ParseHyperliquid(text).res # "ok" THEN <<>>
    ELSE IF ~HyperPasses(ParseHyperliquid(text).value) THEN <<>>
    ELSE <<[fmt |-> "hyper", tag |-> "Hyperliquid", symbol |-> text.symbol,
            position |-> Upper(text.side), value |-> text.value,
            price |-> text.price]>>

\* HyperliquidMonitor.start up to run_until_disconnected(); ok: the session is
\* authorized and the channel is found.
HLStart_NoCredsTest(ok) ==
    /\ ProcessAlive /\ focus = "Hyperliquid"
    /\ thread["Hyperliquid"] = "start"
    /\ IF ok
       THEN /\ running' = [running EXCEPT !["Hyperliquid"] = TRUE]
            /\ thread' = [thread EXCEPT !["Hyperliquid"] = "run"]
            /\ UNCHANGED loops
       ELSE /\ thread' = [thread EXCEPT !["Hyperliquid"] = "dead"]
            /\ Ends("Hyperliquid")
            /\ UNCHANGED running
    /\ UNCHANGED <<focus, creds, reconnect_count, sock, connection_alive, age,
                   backoff, probes, exhausted, forced, sup>>
    /\ Silent /\ UNCHANGED depth
HLStart(ok) ==
    /\ ProcessAlive /\ focus = "Hyperliquid"
    /\ thread["Hyperliquid"] = "start"
    /\ IF creds /\ ok
       THEN /\ running' = [running EXCEPT !["Hyperliquid"] = TRUE]
            /\ thread' = [thread EXCEPT !["Hyperliquid"] = "run"]
            /\ UNCHANGED loops
       ELSE /\ thread' = [thread EXCEPT !["Hyperliquid"] = "dead"]
            /\ Ends("Hyperliquid")
            /\ UNCHANGED running
    /\ UNCHANGED <<focus, creds, reconnect_count, sock, connection_alive, age,
                   backoff, probes, exhausted, forced, sup>>
    /\ Silent /\ UNCHANGED depth

\* handle_new_message
HLMessage(text) ==
    /\ ProcessAlive /\ focus = "Hyperliquid"
    /\ thread["Hyperliquid"] = "run"
    /\ frame = NoFrame
    /\ Sends(HyperAlerts(text))
    /\ frame' = text
    /\ UNCHANGED <<focus, creds, conn, sup>>

\* run_until_disconnected() returns: start() returns and the thread ends.
HLDisconnect ==
    /\ ProcessAlive /\ focus = "Hyperliquid"
    /\ thread["Hyperliquid"] = "run"
    /\ thread' = [thread EXCEPT !["Hyperliquid"] = "dead"]
    /\ UNCHANGED <<focus, creds, running, reconnect_count, sock, connection_alive,
                   age, backoff, probes, exhausted, forced, sup>>
    /\ Ends("Hyperliquid")
    /\ Silent /\ UNCHANGED depth

\* The message text character by character.  The markers and the literal words
\* of the pattern are single items; every other item is one character.
Markers == {"red", "green"}
WordChars == {"B", "T", "C", "E", "A", "_", "x"} \cup Digits \cup {"k", "M"}
PriceChars == Digits \cup {",", "."}
Item(t, i) == IF i \in 1..Len(t) THEN t[i] ELSE "end"
\* the length of the longest run of items of class cls that starts at place i
RECURSIVE Run(_, _, _)
Run(t, i, cls) == IF Item(t, i) \in cls THEN 1 + Run(t, i + 1, cls) ELSE 0

\* the pattern of parse_hyperliquid_message tried at place i:
\* [markers]\s*#(\w+)\s+(Long|Short)\s+Liquidation:\s*\$([0-9,.kM]+)\s*@\s*\$([0-9,.]+)
\* Each repetition is greedy and is followed by an item outside its class, so
\* the longest run is the only one that can match.
MatchAt(t, i) ==
    LET hash == i + 1 + Run(t, i + 1, {" "})
        sym == hash + 1
        symEnd == sym + Run(t, sym, WordChars)
        side == symEnd + Run(t, symEnd, {" "})
        word == side + 1 + Run(t, side + 1, {" "})
        dollar == word + 1 + Run(t, word + 1, {" "})
        val == dollar + 1
        valEnd == val + Run(t, val, Chars)
        at == valEnd + Run(t, valEnd, {" "})
        dollar2 == at + 1 + Run(t, at + 1, {" "})
        price == dollar2 + 1
        priceEnd == price + Run(t, price, PriceChars)
    IN  IF /\ Item(t, i) \in Markers
           /\ Item(t, hash) = "#"
           /\ symEnd > sym
           /\ side > symEnd
           /\ Item(t, side) \in {"Long", "Short"}
           /\ word > side + 1
           /\ Item(t, word) = "Liquidation:"
           /\ Item(t, dollar) = "$"
           /\ valEnd > val
           /\ Item(t, at) = "@"
           /\ Item(t, dollar2) = "$"
           /\ priceEnd > price
        THEN [kind |-> "liq", symbol |-> SubSeq(t, sym, symEnd - 1), side |-> t[side],
              value |-> SubSeq(t, val, valEnd - 1),
              price |-> SubSeq(t, price, priceEnd - 1)]
        ELSE [kind |-> "nomatch", symbol |-> "", side |-> "", value |-> <<>>,
              price |-> <<>>]

\* re.search(pattern, message_text): the leftmost place where the pattern
\* matches; `if not message_text: return` of handle_new_message before it.
Match(t) ==
    IF t = <<>>
    THEN [kind |-> "empty", symbol |-> "", side |-> "", value |-> <<>>, price |-> <<>>]
    ELSE IF \E i \in 1..Len(t) : MatchAt(t, i).kind = "liq"
         THEN MatchAt(t, CHOOSE i \in 1..Len(t) :
                            /\ MatchAt(t, i).kind = "liq"
                            /\ \A j \in 1..(i - 1) : MatchAt(t, j).kind # "liq")
         ELSE MatchAt(t, 0)

\* The message texts of the channel: text before the marker, the fields with
\* one space more or less between them, text after the price; a side word may
\* be another word.
Gap(n) == [i \in 1..n |-> " "]
RawTokens == {t \in Tokens : Len(t) < MaxTok}
RawText(pre, mk, g, sym, sd, val, pr, post) ==
    pre \o <<mk>> \o Gap(g) \o <<"#">> \o sym \o Gap(1 + g) \o <<sd>> \o Gap(1 + g)
        \o <<"Liquidation:">> \o Gap(g) \o <<"$">> \o val \o Gap(g) \o <<"@">>
        \o Gap(g) \o <<"$">> \o pr \o post
RawTexts ==
    {<<>>} \cup
    {RawText(pre, mk, g, sym, sd, val, pr, post) :
        pre \in {<<>>, <<"x", " ">>, <<"red", "#">>}, mk \in Markers, g \in {0, 1},
        sym \in {<<"B", "T", "C">>, <<"E", "_", "A">>}, sd \in {"Long", "Short", "x"},
        val \in RawTokens, pr \in PriceTokens,
        post \in {<<>>, <<" ", "x">>, <<".">>, <<"k">>}}

\* md_escape: for ch in r"\_*[]()~`>#+-=|{}.!": text = text.replace(ch, "\\" + ch)
EscapeOrder ==
    <<"\\", "_", "*", "[", "]", "(", ")", "~", "backtick", ">", "#", "+", "-", "=", "|",
      "{", "}", ".", "!">>
RECURSIVE Replace(_, _)
Replace(text, ch) ==
    IF text = <<>> THEN <<>>
    ELSE (IF Head(text) = ch THEN <<"\\", ch>> ELSE <<Head(text)>>)
            \o Replace(Tail(text), ch)
RECURSIVE EscapeFrom(_, _)
EscapeFrom(text, k) ==
    IF k > Len(EscapeOrder) THEN text
    ELSE EscapeFrom(Replace(text, EscapeOrder[k]), k + 1)
md_escape(text) == EscapeFrom(text, 1)

\* format_hyperliquid_message: the dynamic fields of the text it returns;
\* symbol_display is '$' + symbol, the value and the price go through md_escape.
format_hyperliquid_message(p) ==
    [symbol |-> <<"$">> \o p.symbol,
     value |-> md_escape(<<"$">> \o p.value_display),
     price |-> md_escape(<<"$">> \o p.price)]

\* handle_new_message on the message text t
HLEvent(t) ==
    /\ HLMessage(Match(t))
    /\ message_text' = t
    /\ UNCHANGED <<inbox, arrived, log>>

\* ---------------------------------------------------------------------------
\* Probe threads: ping_loop (Binance), enhanced_monitoring_loop (Bybit)
\* ---------------------------------------------------------------------------

\* enhanced_monitoring_loop's staleness test
IsStale(m) == age[m] > StaleBound

\* A transport close forced by ws.close().  forced counts the closes of one
\* staleness episode: the close of the stale open connection, then every close
\* of a replacement transport before last_ping_time is set again.
ForcedAfterClose ==
    IF forced = 0
    THEN IF sock["Bybit"] = "open" /\ IsStale("Bybit") THEN 1 ELSE 0
    ELSE IF sock["Bybit"] # "none" THEN 2 ELSE forced

\* One round of a probe thread after its time.sleep(30).  ok: the ping went out
\* (it may raise while the transport is still connecting).
ProbeCheck(m, ok) ==
    /\ ProcessAlive /\ focus = m
    /\ probes[m].sleep > 0
    /\ ok \/ sock[m] = "connecting"
    /\ IF m = "Bybit"
       THEN IF sock[m] = "none" \/ ~ok
            THEN /\ connection_alive' = FALSE
                 /\ probes' = [probes EXCEPT ![m].sleep = @ - 1]
            ELSE IF IsStale(m)
            THEN /\ connection_alive' = FALSE
                 /\ probes' = [probes EXCEPT ![m].sleep = @ - 1, ![m].close = @ + 1]
            ELSE /\ UNCHANGED connection_alive
                 /\ probes' = IF running[m] THEN probes
                              ELSE [probes EXCEPT ![m].sleep = @ - 1]
       ELSE /\ UNCHANGED connection_alive
            /\ probes' = IF (sock[m] # "none" /\ ~ok) \/ ~running[m]
                         THEN [probes EXCEPT ![m].sleep = @ - 1]
                         ELSE probes
    /\ UNCHANGED <<focus, creds, running, reconnect_count, sock, age, thread,
                   backoff, exhausted, forced, sup>>
    /\ Quiet

\* enhanced_monitoring_loop: self.ws.close(), break
ProbeClose ==
    /\ ProcessAlive /\ focus = "Bybit"
    /\ probes["Bybit"].close > 0
    /\ sock' = [sock EXCEPT !["Bybit"] = "none"]
    /\ forced' = ForcedAfterClose
    /\ probes' = [probes EXCEPT !["Bybit"].close = @ - 1]
    /\ UNCHANGED <<focus, creds, running, reconnect_count, connection_alive, age,
                   thread, backoff, exhausted, sup>>
    /\ Quiet

\* ---------------------------------------------------------------------------
\* The main thread: heartbeat, health audit, shutdown
\* ---------------------------------------------------------------------------

\* BybitMonitor.is_healthy
IsHealthy ==
    /\ connection_alive
    /\ sock["Bybit"] # "none"
    /\ age["Bybit"] < StaleBound

\* time.sleep(60) is over: count the heartbeat, every fifth one starts an audit
Heartbeat ==
    /\ main.at = "sleep"
    /\ IF health_check_counter + 1 >= AuditEvery
       THEN /\ health_check_counter' = 0
            /\ main' = At("health", 0)
       ELSE /\ health_check_counter' = health_check_counter + 1
            /\ UNCHANGED main
    /\ UNCHANGED <<focus, creds, conn>>
    /\ Quiet

\* if not bybit_monitor.is_healthy()
Health ==
    /\ main.at = "health"
    /\ main' = IF IsHealthy THEN At("check", 1) ELSE At("force", 0)
    /\ UNCHANGED <<focus, creds, conn, health_check_counter>>
    /\ Quiet

\* BybitMonitor.force_reconnect
Force_Fatal ==
    /\ main.at = "force"
    /\ connection_alive' = FALSE
    /\ main' = At("exited", 0)
    /\ UNCHANGED <<focus, creds, running, reconnect_count, sock, age, thread, backoff,
                   probes, exhausted, forced, health_check_counter>>
    /\ Quiet
Force ==
    /\ main.at = "force"
    /\ connection_alive' = FALSE
    /\ sock' = [sock EXCEPT !["Bybit"] = "none"]
    /\ forced' = ForcedAfterClose
    /\ main' = At("check", 1)
    /\ UNCHANGED <<focus, creds, running, reconnect_count, age, thread, backoff,
                   probes, exhausted, health_check_counter>>
    /\ Quiet

\* <source>_thread.is_alive(): the thread's start() has not returned
IsAlive_Guess(s) == thread[s] \notin {"dead", "backoff"}
IsAlive(s) == thread[s] # "dead"

\* if not <source>_thread.is_alive(): start a new thread on <source>.start
CheckThread_Never ==
    /\ main.at = "check"
    /\ main' = IF main.i < Len(Order) THEN At("check", main.i + 1) ELSE At("sleep", 0)
    /\ UNCHANGED <<focus, creds, conn, health_check_counter>>
    /\ Quiet
CheckThread ==
    /\ main.at = "check"
    /\ IF ~IsAlive(Order[main.i])
       THEN /\ thread' = [thread EXCEPT ![Order[main.i]] = "start"]
            /\ loops' = [loops EXCEPT ![Order[main.i]] = @ + 1]
       ELSE UNCHANGED <<thread, loops>>
    /\ main' = IF main.i < Len(Order) THEN At("check", main.i + 1) ELSE At("sleep", 0)
    /\ UNCHANGED <<focus, creds, running, reconnect_count, sock, connection_alive,
                   age, backoff, probes, exhausted, forced, health_check_counter>>
    /\ Silent /\ UNCHANGED depth

\* KeyboardInterrupt reaches the main thread inside the try block.
Interrupt ==
    /\ main.at \in {"sleep", "health", "force", "check"}
    /\ main' = At("stop", 1)
    /\ UNCHANGED <<focus, creds, conn, health_check_counter>>
    /\ Quiet

\* <source>_monitor.running = False; after the third, main() returns.
Stop ==
    /\ main.at = "stop"
    /\ running' = [running EXCEPT ![Order[main.i]] = FALSE]
    /\ main' = IF main.i < Len(Order) THEN At("stop", main.i + 1) ELSE At("exited", 0)
    /\ UNCHANGED <<focus, creds, reconnect_count, sock, connection_alive, age, thread,
                   backoff, probes, exhausted, forced, health_check_counter>>
    /\ Quiet

\* The handler has set m.running = False.
Stopped(s) ==
    \/ main.at = "exited"
    \/ main.at = "stop" /\ \E i \in 1..(main.i - 1) : Order[i] = s

\* Time passes: at least Quantum units, so never in the middle of the
\* KeyboardInterrupt handler (three consecutive assignments).
Tick ==
    /\ ProcessAlive /\ main.at # "stop"
    /\ age' \in [Exchanges -> Ages]
    /\ \A m \in Exchanges : age'[m] >= Max(age[m], StaleBound - Quantum)
    /\ backoff' = [m \in Exchanges |-> Max(backoff[m] - Quantum, 0)]
    /\ UNCHANGED <<focus, creds, running, reconnect_count, sock, connection_alive,
                   thread, probes, exhausted, forced, sup>>
    /\ Quiet

\* The steps of the connection life cycle, of the probes and of main().
Life ==
    \/ \E m \in Exchanges : ThreadStart(m)
    \/ \E m \in Exchanges : ConnectOk(m)
    \/ \E m \in Exchanges : ConnectFail(m)
    \/ \E m \in Exchanges : Drop(m)
    \/ \E m \in Exchanges : Teardown(m)
    \/ \E m \in Exchanges : OnClose(m)
    \/ \E m \in Exchanges : Reconnect(m)
    \/ \E m \in Exchanges, ok \in BOOLEAN : ProbeCheck(m, ok)
    \/ ProbeClose
    \/ \E ok \in BOOLEAN : HLStart(ok)
    \/ HLDisconnect
    \/ Heartbeat
    \/ Health
    \/ Force
    \/ CheckThread
    \/ Interrupt
    \/ Stop
    \/ Tick

Next ==
    \/ Life
    \/ \E m \in Exchanges : \E f \in FewFrames(m) : OnMessage(m, f) /\ Direct
    \/ \E text \in {t \in Texts : t.kind # "liq"} : HLMessage(text) /\ Direct
    \/ Handled

Spec == Init /\ [][Next]_vars

\* The threads of the program are scheduled fairly and time passes; nothing is
\* assumed of the peers (connecting, dropping, sending) nor of the operator.
Fairness ==
    /\ \A m \in Exchanges : WF_vars(ThreadStart(m))
    /\ \A m \in Exchanges : WF_vars(Teardown(m))
    /\ \A m \in Exchanges : WF_vars(OnClose(m))
    /\ \A m \in Exchanges : WF_vars(Reconnect(m))
    /\ \A m \in Exchanges : WF_vars(ProbeCheck(m, TRUE))
    /\ WF_vars(ProbeClose)
    /\ WF_vars(Heartbeat)
    /\ WF_vars(Health)
    /\ WF_vars(Force)
    /\ WF_vars(CheckThread)
    /\ WF_vars(Stop)
    /\ WF_vars(Tick)

FairSpec == Init /\ [][Next]_vars /\ Fairness

\* The handlers on every frame, with the connections opening and closing.
MsgNext ==
    \/ \E m \in Exchanges : ThreadStart(m)
    \/ \E m \in Exchanges : ConnectOk(m)
    \/ \E m \in Exchanges : ConnectFail(m)
    \/ \E m \in Exchanges : Drop(m)
    \/ \E m \in Exchanges : OnClose(m)
    \/ \E m \in Exchanges : Reconnect(m)
    \/ \E ok \in BOOLEAN : HLStart(ok)
    \/ HLDisconnect
    \/ Tick
    \/ frame = NoFrame /\ \E m \in Exchanges : \E f \in FramesOf(m) : OnMessage(m, f) /\ Direct
    \/ frame = NoFrame /\ \E text \in Texts : HLMessage(text) /\ Direct
    \/ Handled

MsgSpec == Init /\ [][MsgNext]_vars

\* The scheduler turns to the threads of another source.
Switch ==
    /\ ProcessAlive
    /\ focus' \in Sources \ {focus}
    /\ Cardinality({s \in Sources : thread[s] # "start"} \cup {focus, focus'}) <= MaxActive
    /\ UNCHANGED <<creds, conn, sup>>
    /\ Quiet

\* A long time passes: every sleep is over, every timestamp is old.
LongTick ==
    /\ Tick
    /\ age' = [m \in Exchanges |-> AgeCap]

\* The frames of the interleaved sources: an unparseable one and an event that
\* passes the filter.
IsoFrames(m) == {f \in FewFrames(m) : f.kind = "garbage" \/ f.recs # <<>>}

\* The threads of the three sources interleaved, without main().
IsoNext ==
    \/ \E m \in Exchanges : ThreadStart(m)
    \/ \E m \in Exchanges : ConnectOk(m)
    \/ \E m \in Exchanges : ConnectFail(m)
    \/ \E m \in Exchanges : Drop(m)
    \/ \E m \in Exchanges : Teardown(m)
    \/ \E m \in Exchanges : OnClose(m)
    \/ \E m \in Exchanges : Reconnect(m)
    \/ \E m \in Exchanges, ok \in BOOLEAN : ProbeCheck(m, ok)
    \/ ProbeClose
    \/ \E ok \in BOOLEAN : HLStart(ok)
    \/ HLDisconnect
    \/ \E m \in Exchanges : \E f \in IsoFrames(m) : OnMessage(m, f) /\ Direct
    \/ \E text \in {t \in Texts : t.kind # "liq"} : HLMessage(text) /\ Direct
    \/ Handled
    \/ LongTick
    \/ Switch

IsoSpec == Init /\ [][IsoNext]_vars

\* The frames that arrive in the inbox: unparseable ones, and events of
\* distinct symbols worth 1,000,000 each.
OrdFrames(m) ==
    {f \in FramesOf(m) :
        \/ f.kind = "garbage"
        \/ /\ f.recs # <<>>
           /\ \A i \in 1..Len(f.recs) :
                 /\ ~f.recs[i].nan /\ f.recs[i].s # "" /\ f.recs[i].S = "Buy"
                 /\ f.recs[i].q = 10 /\ f.recs[i].p = 100000
           /\ \A i, j \in 1..Len(f.recs) : f.recs[i].s = f.recs[j].s => i = j}

\* The peer's next frame is read from the open socket.
Arrive(m, f) ==
    /\ ProcessAlive /\ focus = m
    /\ thread[m] = "run" /\ sock[m] = "open"
    /\ arrived < MaxFrames /\ Len(inbox) < MaxInbox
    /\ arrived' = arrived + 1
    /\ inbox' = Append(inbox, [n |-> arrived', f |-> f])
    /\ frame' = NoFrame /\ out' = <<>> /\ posts' = <<>>
    /\ UNCHANGED <<focus, creds, conn, sup, log, message_text>>

\* the record of frame f that alert a was made for
IndexOf(f, a) == CHOOSE i \in 1..Len(f.recs) : f.recs[i].s = a.symbol

\* run_forever() hands the oldest frame it has read to on_message.
Receive(m) ==
    /\ inbox # <<>>
    /\ OnMessage(m, Head(inbox).f)
    /\ inbox' = Tail(inbox)
    /\ arrived' = arrived
    /\ message_text' = <<>>
    /\ log' = log \o [j \in 1..Len(out') |->
                        [n |-> Head(inbox).n, i |-> IndexOf(Head(inbox).f, out'[j])]]

\* One exchange connection receiving frames, dropping and reconnecting.
OrdInit == Init /\ focus \in Exchanges
OrdNext ==
    \/ \E m \in Exchanges : ThreadStart(m)
    \/ \E m \in Exchanges : ConnectOk(m)
    \/ \E m \in Exchanges : Drop(m)
    \/ \E m \in Exchanges : OnClose(m)
    \/ \E m \in Exchanges : Reconnect(m)
    \/ \E m \in Exchanges : \E f \in OrdFrames(m) : Arrive(m, f)
    \/ \E m \in Exchanges : Receive(m)
    \/ Handled
    \/ LongTick

OrdSpec == OrdInit /\ [][OrdNext]_vars

\* The channel handler on message texts.
TextInit == Init /\ focus = "Hyperliquid"
TextNext ==
    \/ \E ok \in BOOLEAN : HLStart(ok)
    \/ HLDisconnect
    \/ frame = NoFrame /\ thread["Hyperliquid"] = "run" /\ \E t \in RawTexts : HLEvent(t)
    \/ Handled

TextSpec == TextInit /\ [][TextNext]_vars

\* One exchange connection dropping and reconnecting, with the call stack of
\* its thread counted.
DepthNext ==
    \/ \E m \in Exchanges : NestedStart(m)
    \/ \E m \in Exchanges : ConnectOk(m)
    \/ \E m \in Exchanges : ConnectFail(m)
    \/ \E m \in Exchanges : Drop(m)
    \/ \E m \in Exchanges : NestedOnClose(m)
    \/ \E m \in Exchanges : NestedReconnect(m)
    \/ \E m \in Exchanges : NestedReturn(m)
    \/ LongTick

DepthSpec == OrdInit /\ [][DepthNext]_vars

\* ---------------------------------------------------------------------------
\* Properties
\* ---------------------------------------------------------------------------

Live(m) == thread[m] = "run" /\ sock[m] = "open"

\* C1: once on_close has found the reconnect budget used up (10 reconnects in a
\* row have failed), the connection stays disconnected: no further connection
\* attempt is ever made.
C1_NoAttemptAfterBudget ==
    \A m \in Exchanges : exhausted[m] => sock[m] = "none"

StaleLive(m) == Live(m) /\ age[m] > StaleBound
\* the stale connection is gone, or a frame has arrived, or the process has ended
StaleOver(m) == sock[m] = "none" \/ age[m] <= StaleBound \/ ~ProcessAlive

\* C2: an open connection of any exchange that has been silent for longer than
\* the staleness bound is eventually closed (unless a frame arrives first).
C2_StaleIsClosed ==
    \A m \in Exchanges : StaleLive(m) ~> StaleOver(m)

\* C2, Bybit alone: a silent open Bybit connection is eventually marked not alive
\* and closed (unless a frame arrives first).
C2_BybitStaleIsClosed ==
    StaleLive("Bybit") ~>
        ((sock["Bybit"] = "none" /\ ~connection_alive) \/ age["Bybit"] <= StaleBound
            \/ ~ProcessAlive)

\* C3: one staleness episode of the Bybit connection forces one transport
\* close: the replacement connection is not force-closed before last_ping_time
\* is set again.
C3_OneForcedClose == forced <= 1

\* ---- the handlers ----

\* an exchange frame has just been handled
ExchangeFrame == focus \in Exchanges /\ frame # NoFrame
\* ... carrying exactly one record
OneRecord == ExchangeFrame /\ Len(frame.recs) = 1
\* symbol and side present, quantity and price numbers above 0
ValidRec(r) == ~r.nan /\ r.s # "" /\ r.S # "" /\ r.q > 0 /\ r.p > 0

\* C4: an event of a tracked symbol is notified exactly when its notional value
\* is at least 1,000,000.
C4_TrackedAtThreshold ==
    (OneRecord /\ ValidRec(frame.recs[1]) /\ frame.recs[1].s \in TRACKED_SYMBOLS)
        => (out # <<>> <=> frame.recs[1].q * frame.recs[1].p >= 1000000)

\* the records of a frame that are due a generic alert, the generic alerts sent
GenericDue ==
    SelectSeq(frame.recs,
              LAMBDA r : r.s \notin TRACKED_SYMBOLS /\ r.q * r.p >= 500000)
GenericSent == SelectSeq(out, LAMBDA a : a.symbol \notin TRACKED_SYMBOLS)

\* C5: a valid event of a symbol that is not tracked is notified exactly when
\* its notional value is at least 500,000 (once, in the generic format).
C5_GenericAtThreshold ==
    (ExchangeFrame /\ \A i \in 1..Len(frame.recs) : ValidRec(frame.recs[i]))
        => /\ Len(GenericSent) = Len(GenericDue)
           /\ \A i \in 1..Len(GenericSent) :
                /\ GenericSent[i].symbol = GenericDue[i].s
                /\ GenericSent[i].value = GenericDue[i].q * GenericDue[i].p
                /\ GenericSent[i].fmt = "generic"

\* C5, witness: DOGEUSDT at exactly 500,000 has been notified.
C5_Witness ==
    /\ OneRecord /\ frame.recs[1].s = "DOGEUSDT" /\ ValidRec(frame.recs[1])
    /\ frame.recs[1].q * frame.recs[1].p = 500000
    /\ Len(out) = 1

\* a channel message that parses has just been handled
HyperParsed ==
    focus = "Hyperliquid" /\ frame # NoFrame /\ ParseHyperliquid(frame).res = "ok"

\* C6: a channel message that parses is notified exactly when its expanded
\* value is at least 1,000,000, whatever its symbol.
C6_HyperAtThreshold ==
    HyperParsed =>
        /\ Len(out) <= 1
        /\ out # <<>> <=> ValueOf(frame.value).num >= 1000000 * ValueOf(frame.value).den
        /\ out # <<>> => out[1].symbol = frame.symbol

\* C6, witness: a message of a symbol no exchange tracks, worth exactly 1M, has
\* been notified.
C6_Witness ==
    HyperParsed /\ frame.symbol = "ENA" /\ frame.value = <<"1", "M">> /\ Len(out) = 1

\* C7: an event with a missing symbol or side, or with a quantity or price that
\* is not above 0, is not notified.
C7_InvalidNotNotified ==
    (OneRecord /\ ~ValidRec(frame.recs[1])) => out = <<>>

\* json.loads fails, the frame is no object, or a record holds no number
Malformed(f) ==
    f.kind \in {"garbage", "nonobject"} \/ \E i \in 1..Len(f.recs) : f.recs[i].nan
\* the place of the first malformed record of a batch
FirstBad(f) == CHOOSE i \in 1..Len(f.recs) : f.recs[i].nan /\ \A j \in 1..(i - 1) : ~f.recs[j].nan
\* a frame whose first record is valid and passes the filter of either class
Qualifying(f) ==
    /\ f.recs # <<>> /\ ValidRec(f.recs[1]) /\ f.recs[1].q * f.recs[1].p >= 1000000

C9_NoRestartAfterShutdown ==
    [][\A m \in Exchanges :
        (Stopped(m) /\ thread[m] = "backoff" /\ ~running[m]) =>
            (~running'[m] /\ sock'[m] = "none")]_vars

\* C10: on_close with running set and reconnect_count below the maximum adds
\* exactly 1 to reconnect_count and sleeps the fixed 5 units; no connection is
\* attempted during the sleep and exactly one after it; otherwise on_close
\* leaves the counter and attempts nothing.
C10_OneAttemptAfterBackoff ==
    [][\A m \in Exchanges :
        /\ (thread[m] = "on_close" /\ thread'[m] # "on_close") =>
             IF running[m] /\ reconnect_count[m] < 10
             THEN /\ reconnect_count'[m] = reconnect_count[m] + 1
                  /\ thread'[m] = "backoff" /\ backoff'[m] = 5
                  /\ sock'[m] = "none"
             ELSE /\ reconnect_count'[m] = reconnect_count[m]
                  /\ thread'[m] = "dead" /\ sock'[m] = "none"
        /\ (thread[m] = "backoff" /\ thread'[m] = "backoff") =>
             /\ sock'[m] = "none" /\ reconnect_count'[m] = reconnect_count[m]
             /\ backoff'[m] <= backoff[m]
        /\ (thread[m] = "backoff" /\ thread'[m] # "backoff") =>
             /\ backoff[m] = 0
             /\ sock'[m] = "connecting" /\ thread'[m] = "run"
             /\ reconnect_count'[m] = reconnect_count[m]]_vars

\* C10, witness: the attempt that follows the third failure in a row is under way.
C10_Witness ==
    /\ thread["Bybit"] = "run" /\ sock["Bybit"] = "connecting"
    /\ reconnect_count["Bybit"] = 3 /\ backoff["Bybit"] = 0

\* C11: reconnect_count stays within 0..max_reconnect_attempts and is 0 while
\* the connection is open; only the connection's own thread changes it: on_open
\* sets it to 0, on_close adds 1 on its way into the backoff sleep.
C11_BoundedCounter ==
    /\ [](\A m \in Exchanges :
            /\ reconnect_count[m] \in 0..max_reconnect_attempts
            /\ Live(m) => reconnect_count[m] = 0)
    /\ [][\A m \in Exchanges :
            reconnect_count'[m] # reconnect_count[m] =>
                /\ focus = m /\ main' = main
                /\ \/ /\ thread[m] = "on_close" /\ thread'[m] = "backoff"
                      /\ reconnect_count'[m] = reconnect_count[m] + 1
                   \/ /\ thread[m] = "run" /\ sock[m] = "connecting" /\ sock'[m] = "open"
                      /\ reconnect_count'[m] = 0]_vars

\* C11, witness: the tenth reconnect in a row is under way (the counter is at
\* its bound).
C11_Witness ==
    /\ reconnect_count["Binance"] = max_reconnect_attempts
    /\ thread["Binance"] = "run" /\ sock["Binance"] = "connecting"

\* a step of the supervisory loop of main(): heartbeat, audit, thread check
SupervisorStep ==
    main' # main /\ main.at \in {"sleep", "health", "force", "check"} /\ main'.at # "stop"

\* C12: no step of the supervisory loop (is_healthy and force_reconnect called
\* from it included) writes connection_alive, last_ping_time, reconnect_count or
\* running of a monitor.
C12_SupervisorReadsOnly ==
    [][SupervisorStep => UNCHANGED <<connection_alive, age, reconnect_count, running>>]_vars

\* the state of source t, but for its clocks, is left as it is
Untouched(t) ==
    /\ running'[t] = running[t] /\ thread'[t] = thread[t]
    /\ t \in Exchanges =>
          /\ reconnect_count'[t] = reconnect_count[t] /\ sock'[t] = sock[t]
          /\ probes'[t] = probes[t] /\ exhausted'[t] = exhausted[t]
    /\ t = "Bybit" => UNCHANGED <<connection_alive, forced>>
\* the clocks of exchange t are left as they are
ClocksUntouched(t) == age'[t] = age[t] /\ backoff'[t] = backoff[t]

\* C13: a step of one source's threads (frame handling, transport error, close,
\* backoff, reconnect, giving up, probe) leaves the state of every other source
\* unchanged (a clock of another source moves only in a step in which time
\* passes and no thread acts), and an open connection notifies every qualifying
\* frame it handles, whatever state the other sources are in (their budget used
\* up included).
C13_FaultIsolation ==
    /\ []((ExchangeFrame /\ Qualifying(frame)) => out # <<>>)
    /\ [][\A t \in Sources \ {focus} :
            /\ Untouched(t)
            /\ (t \in Exchanges /\ ~ClocksUntouched(t)) =>
                  \A s \in Sources : Untouched(s)]_vars

\* C13, witness: Binance has used up its reconnect budget and the open Bybit
\* connection has just notified an event.
C13_Witness ==
    /\ exhausted["Binance"] /\ thread["Binance"] = "dead"
    /\ focus = "Bybit" /\ Live("Bybit") /\ frame # NoFrame /\ out # <<>>

\* the health audit of main() is completed by this step
AuditDone == main.at \in {"health", "force"} /\ main'.at = "check"

\* C14: at every health audit, each open connection that has had no liveness
\* signal within the staleness bound is forced to reconnect: its transport is
\* closed when the audit is done.
C14_AuditForcesReconnect ==
    [][\A m \in Exchanges :
        (AuditDone /\ Live(m) /\ age[m] >= StaleBound) => sock'[m] = "none"]_vars

\* C14, Bybit alone: the audit closes the transport of a Bybit connection that
\* has had no liveness signal within the staleness bound.
C14_BybitAuditForcesReconnect ==
    [][(AuditDone /\ Live("Bybit") /\ age["Bybit"] >= StaleBound)
        => sock'["Bybit"] = "none"]_vars

\* C15: a source whose owning thread has ended gets exactly one fresh thread on
\* its start() at the next audit: an audit begins at every fifth heartbeat, its
\* check of a source starts a thread exactly when that source's thread is dead,
\* and a dead thread (of the source whose threads run in this behaviour) is
\* always followed by a restart unless the process is shutting down.
C15_DeadThreadRestarted ==
    /\ [](health_check_counter \in 0..(AuditEvery - 1))
    /\ [][(main.at = "check" /\ main' # main /\ main'.at # "stop") =>
            \A s \in Sources :
                thread'[s] = IF s = Order[main.i] /\ thread[s] = "dead"
                             THEN "start" ELSE thread[s]]_vars
    /\ (thread[focus] = "dead") ~>
            (thread[focus] # "dead" \/ main.at \in {"stop", "exited"})

\* C15, witness: the audit has just started a fresh thread for Binance, whose
\* thread had ended with the reconnect budget used up.
C15_Witness ==
    /\ exhausted["Binance"] /\ thread["Binance"] = "start"
    /\ main = At("check", 2)

\* main() has left its loop
ShuttingDown == main.at \in {"stop", "exited"}

\* C16: no error ends the process.  main() leaves its loop only when the
\* operator's KeyboardInterrupt arrives; a step in which a transport is lost
\* leaves main() where it is and takes the connection's thread to on_close; and
\* the audits go on for ever unless the operator shuts the process down.
C16_NoFatalError ==
    /\ [][(ShuttingDown' /\ ~ShuttingDown) => Interrupt]_vars
    /\ [][\A m \in Exchanges :
            (sock[m] # "none" /\ sock'[m] = "none") =>
                /\ ~ShuttingDown => ~ShuttingDown'
                /\ thread'[m] \in {"run", "on_close"}]_vars
    /\ []<>(main.at = "health" \/ ShuttingDown)

\* C16, witness: Bybit has used up its reconnect budget, its thread has ended,
\* and main() begins another audit.
C16_Witness ==
    /\ exhausted["Bybit"] /\ thread["Bybit"] = "dead"
    /\ main.at = "health"

\* the events of the frame at the head of the inbox that pass the filter, in the
\* order of its records
DueOfHead ==
    SelectSeq([i \in 1..Len(Head(inbox).f.recs) |-> [n |-> Head(inbox).n, i |-> i]],
              LAMBDA e : Classify(Head(inbox).f.recs[e.i].s,
                                  Notional(Head(inbox).f.recs[e.i])) # "none")

\* C17: the frames of a source are handled in the order of their arrival and
\* the send_telegram calls made for the source are its qualifying events in
\* that order (the records of a batch in batch order), also after a reconnect.
C17_ArrivalOrder ==
    /\ [](\A j \in 1..(Len(log) - 1) :
            \/ log[j].n < log[j + 1].n
            \/ log[j].n = log[j + 1].n /\ log[j].i < log[j + 1].i)
    /\ [][(frame' # NoFrame) =>
            /\ inbox # <<>> /\ frame' = Head(inbox).f
            /\ \A k \in 1..Len(inbox') : inbox'[k].n > Head(inbox).n
            /\ log' = log \o DueOfHead]_vars

\* C17, witness: both events of the first batch and, after it, the event of
\* the third frame have been sent.
C17_Witness ==
    /\ focus = "Bybit" /\ Len(log) = 3
    /\ log[1].n = 1 /\ log[2].n = 1 /\ log[3].n = 3

\* the event passes the filter of its exchange source
PassesFilter(r) ==
    /\ ValidRec(r)
    /\ IF r.s \in TRACKED_SYMBOLS THEN r.q * r.p >= 1000000 ELSE r.q * r.p >= 500000
\* the send_telegram calls made for the event of record r
CallsFor(r) == {j \in 1..Len(out) : out[j].symbol = r.s /\ out[j].value = r.q * r.p}
\* the records of the frame that are the same event as r
SameAs(r) == {k \in 1..Len(frame.recs) : frame.recs[k] = r}

C19_OnlyHyperliquidDisabled ==
    /\ [](~creds =>
            /\ thread["Hyperliquid"] # "run" /\ ~running["Hyperliquid"]
            /\ focus = "Hyperliquid" => out = <<>>)
    /\ [][(thread["Hyperliquid"] = "start" /\ thread'["Hyperliquid"] # "start") =>
            /\ thread'["Hyperliquid"] = "run" => creds
            /\ thread'["Hyperliquid"] = "dead" => ~running'["Hyperliquid"]
            /\ ProcessAlive'
            /\ UNCHANGED <<reconnect_count, sock, connection_alive, age, backoff, probes>>
            /\ \A m \in Exchanges : running'[m] = running[m] /\ thread'[m] = thread[m]]_vars
    /\ [](~creds =>
            /\ (ExchangeFrame /\ Qualifying(frame)) => out # <<>>
            /\ \A m \in Exchanges :
                  /\ (focus = m /\ thread[m] = "run" /\ sock[m] = "connecting")
                        => ENABLED ConnectOk(m)
                  /\ (focus = m /\ thread[m] = "backoff" /\ backoff[m] = 0)
                        => ENABLED Reconnect(m))

\* C19, witness: the credentials are absent, the Hyperliquid thread has ended
\* in its setup, and the open Bybit connection has just notified an event
\* after a reconnect.
C19_Witness ==
    /\ ~creds /\ thread["Hyperliquid"] = "dead"
    /\ focus = "Bybit" /\ Live("Bybit") /\ frame # NoFrame /\ out # <<>>
    /\ probes["Bybit"].sleep + probes["Bybit"].close = 2

\* a channel message has just been handed to parse_hyperliquid_message
HyperFrame == focus = "Hyperliquid" /\ frame # NoFrame

\* C20: parse_hyperliquid_message returns None or a complete event for every
\* text; it never raises.
C20_ParserTotal ==
    HyperFrame => ParseHyperliquid(frame).res \in {"none", "ok"}

\* C20, the parser where float() accepts the value: it returns None or an event
\* with symbol, side, value, display value and price.
C20_ParserCompleteWhenFloatOk ==
    (HyperFrame /\ (frame.kind = "liq" => FloatOk(Mantissa(frame.value)))) =>
        \/ ParseHyperliquid(frame).res = "none" /\ frame.kind # "liq"
        \/ /\ ParseHyperliquid(frame).res = "ok"
           /\ DOMAIN ParseHyperliquid(frame) =
                 {"res", "symbol", "side", "value", "value_display", "price"}

\* The number a value token displays, read character by character: n is the
\* integer its digits spell, d the count of digits after the point.
RECURSIVE Scan(_, _, _, _)
Scan(t, n, d, point) ==
    IF t = <<>> THEN [n |-> n, d |-> d]
    ELSE IF Head(t) \in Digits
         THEN Scan(Tail(t), 10 * n + DigitValue(Head(t)), IF point THEN d + 1 ELSE d, point)
         ELSE Scan(Tail(t), n, d, point \/ Head(t) = ".")
Factor(t) ==
    CASE t[Len(t)] = "k" -> 1000
      [] t[Len(t)] = "M" -> 1000000
      [] OTHER -> 1

\* C21: for every channel text the parser returns an event for, the value is the
\* displayed number (separators dropped) times 1,000 for a token ending in k,
\* times 1,000,000 for one ending in M, and times 1 otherwise.
C21_SuffixExpansion ==
    (HyperFrame /\ ParseHyperliquid(frame).res = "ok") =>
        LET tok == frame.value
            v == ParseHyperliquid(frame).value
        IN  /\ v.num = Scan(tok, 0, 0, FALSE).n * Factor(tok)
            /\ v.den = Pow10(Scan(tok, 0, 0, FALSE).d)

\* C21, witness: the token .5M has been parsed (to 5,000,000 / 10).
C21_Witness ==
    /\ HyperFrame /\ ParseHyperliquid(frame).res = "ok"
    /\ frame.value = <<".", "5", "M">>
    /\ ParseHyperliquid(frame).value = [num |-> 5000000, den |-> 10]

\* C22: every alert of an exchange event is labelled SHORT or LONG, and SHORT
\* exactly when the event's side token is BUY or Buy, in the tracked and in the
\* generic format.
C22_SideLabel ==
    ExchangeFrame =>
        /\ \A i \in 1..Len(out) : out[i].position \in {"SHORT", "LONG"}
        /\ (Len(frame.recs) = 1 /\ out # <<>>) =>
              /\ Len(out) = 1
              /\ out[1].fmt \in {"base", "generic"}
              /\ out[1].position = "SHORT" <=> frame.recs[1].S \in {"BUY", "Buy"}

\* C22, witness: a Bybit event of 10 BTCUSDT at 100,000 with side Buy has been
\* notified in the tracked format, labelled SHORT.
C22_Witness ==
    /\ OneRecord /\ focus = "Bybit" /\ out # <<>>
    /\ frame.recs[1].S = "Buy" /\ frame.recs[1].s = "BTCUSDT"
    /\ out[1].fmt = "base" /\ out[1].position = "SHORT"

\* a channel message text has just been handled and the parser returned an event
RawParsed ==
    /\ focus = "Hyperliquid" /\ message_text # <<>>
    /\ ParseHyperliquid(Match(message_text)).res = "ok"
\* tok stands in t right after a dollar sign and ends where the characters of
\* class cls end
Occurs(t, tok, cls) ==
    \E i \in 2..Len(t) :
        /\ t[i - 1] = "$"
        /\ i + Len(tok) - 1 <= Len(t)
        /\ SubSeq(t, i, i + Len(tok) - 1) = tok
        /\ Item(t, i + Len(tok)) \notin cls
\* '<marker> #<symbol> <side> Liquidation: $<value_display> @ $<price>'
Render(p, mk) ==
    <<mk, " ", "#">> \o p.symbol \o <<" ", p.side, " ", "Liquidation:", " ", "$">>
        \o p.value_display \o <<" ", "@", " ", "$">> \o p.price

\* C23: the event parsed from a message text keeps the value and the price as
\* they stand in the text, and parsing the event's canonical rendering, with
\* either marker, gives the same event again.
C23_RoundTrip ==
    RawParsed =>
        LET p == ParseHyperliquid(Match(message_text))
        IN  /\ Occurs(message_text, p.value_display, Chars)
            /\ Occurs(message_text, p.price, PriceChars)
            /\ \A mk \in Markers : ParseHyperliquid(Match(Render(p, mk))) = p

\* C23, witness: a text that starts with a marker and a hash that match
\* nothing, whose value carries the suffix M and whose price is followed by a
\* full stop, has been parsed and notified.
C23_Witness ==
    /\ RawParsed /\ out # <<>>
    /\ SubSeq(message_text, 1, 2) = <<"red", "#">>
    /\ message_text[Len(message_text)] = "."
    /\ ParseHyperliquid(Match(message_text)).value_display = <<"5", "M">>
    /\ ParseHyperliquid(Match(message_text)).price = <<"1", ",", "5", ".">>
    /\ ParseHyperliquid(Match(message_text)).symbol = <<"E", "_", "A">>

\* the characters MarkdownV2 gives a meaning to
Special == {EscapeOrder[k] : k \in 1..Len(EscapeOrder)}
\* every special character of s follows a backslash that escapes it
RECURSIVE Escaped(_)
Escaped(s) ==
    IF s = <<>> THEN TRUE
    ELSE IF Head(s) = "\\" THEN Len(s) >= 2 /\ Escaped(SubSeq(s, 3, Len(s)))
    ELSE Head(s) \notin Special /\ Escaped(Tail(s))
\* the fields of the text sent for the channel message just handled
HyperSent == format_hyperliquid_message(ParseHyperliquid(Match(message_text)))

\* C24: in every text sent for a channel message, the special characters of the
\* symbol, the value and the price are escaped.
C24_FieldsEscaped ==
    (RawParsed /\ out # <<>>) =>
        /\ Escaped(HyperSent.symbol)
        /\ Escaped(HyperSent.value)
        /\ Escaped(HyperSent.price)

\* C24, the value and the price alone: their special characters are escaped.
C24_ValueAndPriceEscaped ==
    (RawParsed /\ out # <<>>) => (Escaped(HyperSent.value) /\ Escaped(HyperSent.price))

\* C25: when on_message of the Bybit connection has returned, for whatever
\* frame, last_ping_time is the frame's arrival time and connection_alive is
\* True.
C25_FrameRefreshesLiveness ==
    (ExchangeFrame /\ focus = "Bybit") => (age["Bybit"] = 0 /\ connection_alive)

\* C25, the frames json.loads accepts: each of them refreshes last_ping_time
\* and sets connection_alive.
C25_ParsedFrameRefreshes ==
    (ExchangeFrame /\ focus = "Bybit" /\ Parsed(frame)) =>
        (age["Bybit"] = 0 /\ connection_alive)

\* C26: each exchange monitor has at most one running probe thread (ping_loop,
\* enhanced_monitoring_loop) at any time.
C26_OneProbeThread ==
    \A m \in Exchanges : probes[m].sleep + probes[m].close <= 1

\* C28: on the thread of an exchange monitor, the invocations of start() that
\* have not returned never number more than max_reconnect_attempts + 1.
C28_BoundedDepth ==
    \A m \in Exchanges : depth[m] <= max_reconnect_attempts + 1

\* C27: at most one thread runs the receive loop of a source at any time.  A
\* thread is started on a monitor's start() only when the thread before it has
\* ended, and a reconnect starts none: it runs on the thread that was there.
C27_OneReceiveLoop ==
    /\ [](\A s \in Sources : loops[s] <= 1 /\ (loops[s] = 0 <=> thread[s] = "dead"))
    /\ [][\A s \in Sources :
            /\ loops'[s] > loops[s] => (loops[s] = 0 /\ main.at = "check")
            /\ (s \in Exchanges /\ thread[s] = "backoff" /\ thread'[s] = "run")
                  => loops'[s] = loops[s]]_vars

\* C27, witness: the Bybit thread ended with its budget used up, main() started
\* a new one, and the one receive loop notifies an event.
C27_Witness ==
    /\ focus = "Bybit" /\ exhausted["Bybit"] /\ loops["Bybit"] = 1
    /\ Live("Bybit") /\ frame # NoFrame /\ out # <<>>
    /\ reconnect_count["Bybit"] = 0

\* C29: in a Bybit batch that holds a malformed record, every other record that
\* is valid and passes the filter is notified, before or after the malformed one.
C29_MalformedRecordAlone ==
    (ExchangeFrame /\ focus = "Bybit" /\ \E k \in 1..Len(frame.recs) : frame.recs[k].nan) =>
        \A i \in 1..Len(frame.recs) :
            PassesFilter(frame.recs[i]) =>
                Cardinality(CallsFor(frame.recs[i])) = Cardinality(SameAs(frame.recs[i]))

\* C29, the records in front: every record before the first malformed one that
\* passes the filter is notified.
C29_RecordsBeforeAreNotified ==
    (ExchangeFrame /\ focus = "Bybit" /\ \E k \in 1..Len(frame.recs) : frame.recs[k].nan) =>
        \A i \in 1..(FirstBad(frame) - 1) :
            PassesFilter(frame.recs[i]) => CallsFor(frame.recs[i]) # {}
====
